---- MODULE Spec2Model ----
(***************************************************************************)
(* Model of the BrowseMind extension's backend connection:                 *)
(*   - WebSocketClient (extension/src/background/websocket-client.ts):     *)
(*     connection lifecycle, auto-reconnect with backoff, heartbeat;       *)
(*   - the browser's WebSocket objects the client creates (their           *)
(*     readyState and the open / message / close events they deliver).     *)
(***************************************************************************)
EXTENDS Integers, Sequences, FiniteSets, TLC

\* ---------------------------------------------------------------- bounds
\* Number of WebSocket objects that can be alive (not yet garbage) at once.
MaxSockets == 2
\* Cap of the history counter of reconnects scheduled since the last open.
MaxSched == 10
\* Cap of the history counter of pings sent since the last pong.
MaxMissed == 3
\* Connection ids the server hands out in its `connected` envelope.
MaxConnId == 1
\* Number of tool_execution envelopes the server sends in one run.
MaxTools == 2
\* Command ids (uuids) the server uses as correlation_id of a tool_execution.
MaxCmdId == 1
\* Number of message handlers that callers register besides the router.
MaxHandlers == 2
\* Number of inbound frames that are numbered in order of receipt.
MaxFrames == 3
\* Number of chat messages the store keeps.
MaxStoreMessages == 1
\* Number of superseded WebSocketClient instances still referenced.
MaxInstances == 1
\* Number of commands submitted to the backend's command queue.
MaxCommands == 7

\* ------------------------------------------------------ program constants
maxReconnectAttempts == 10
maxReconnectDelay == 30000
initialReconnectDelay == 1000
NORMAL_CLOSURE == 1000
\* The backend's command queue: concurrent executions, queued commands.
MaxConcurrent == 5
MaxQueued == 10

Sockets == 1..MaxSockets
ConnIds == 1..MaxConnId
ToolSlots == 1..MaxTools
CmdIds == 1..MaxCmdId
Handlers == 1..MaxHandlers
Instances == 1..MaxInstances
Commands == 1..MaxCommands
\* handleWebSocketMessage, the handler the background script registers.
Router == 0
\* The envelope id (a fresh uuid) of the t-th tool_execution of a run.
ExecId(t) == MaxCmdId + t
\* Close codes of a close event: normal, going away, no status received
\* (the peer's close frame carried none), abnormal (no close frame at all).
CloseCodes == {NORMAL_CLOSURE, 1001, 1005, 1006}

Min(a, b) == IF a <= b THEN a ELSE b

VARIABLES
  readyState,       \* readyState of each WebSocket object ("NONE": no object)
  established,      \* whether the object's opening handshake has completed
  client,           \* the fields of the WebSocketClient instance
  urlOk,            \* whether `new WebSocket(this.url)` accepts the URL
  userDisconnected, \* history: disconnect() was the last explicit call
  missedPongs,      \* history: pings sent on the connection since the last pong
  tools,            \* the tool_execution requests handled by the background script
  out,              \* the outcome of the latest send(): frames put on the wire, error thrown
  lastFrame,        \* history: the latest numbered frame's kind and the handlers invoked with it
  received,         \* history: number of the latest numbered inbound frame
  lastSeen,         \* history: for each handler, the number of the latest frame it was given
  store,            \* the extension store (useBrowserMindStore) the router writes to
  worker,           \* the WebSocketClient instances wsClient no longer names, and
                    \* for each socket the instance whose callbacks it carries
                    \* (0: the instance wsClient names)
  queue,            \* the backend's command queue: the status of each command,
                    \* numbered in order of enqueueing, and the last call's rejection
  relayed           \* the envelope the background script last handed to send()
                    \* for the side panel

vars == <<readyState, established, client, urlOk, userDisconnected, missedPongs, tools,
          out, lastFrame, received, lastSeen, store, worker, queue, relayed>>

\* The variables of the extension.
extensionVars == <<readyState, established, client, urlOk, userDisconnected, missedPongs,
                   tools, out, lastFrame, received, lastSeen, store, worker, relayed>>

\* The variables about the dispatch of inbound frames to handlers.
dispatchVars == <<lastFrame, received, lastSeen>>

\* ------------------------------------------------- WebSocketClient fields
\* ws = 0 is null, connectionId = 0 is null.  reconnectTimer keeps its handle
\* after the callback ran ("fired"), as the code never clears it then.
\* timerDelay is the delay given to the last setTimeout; scheduled is the
\* history count of reconnects scheduled since the last open (capped);
\* orphans counts the pending timers whose handle was overwritten (capped).
NewClient ==
  [ ws |-> 0,
    reconnectAttempts |-> 0,
    reconnectDelay |-> initialReconnectDelay,
    heartbeatTimer |-> FALSE,
    reconnectTimer |-> "null",
    timerDelay |-> 0,
    connectionId |-> 0,
    protocolInfo |-> "null",
    messageHandlers |-> <<>>,
    scheduled |-> 0,
    orphans |-> 0 ]

ConnectionStatus == {"disconnected", "connecting", "connected", "reconnecting", "failed"}

\* getStatus() of a client with fields c when the sockets are in states rs.
Status(c, rs) ==
  IF c.ws = 0 THEN "disconnected"
  ELSE CASE rs[c.ws] = "CONNECTING" ->
              IF c.reconnectAttempts > 0 THEN "reconnecting" ELSE "connecting"
         [] rs[c.ws] = "OPEN" -> "connected"
         [] OTHER -> "disconnected"

getStatus == Status(client, readyState)

getConnectionId == client.connectionId

\* ------------------------------------------------------- private methods
clearReconnectTimer(c) == [c EXCEPT !.reconnectTimer = "null"]

stopHeartbeat(c) == [c EXCEPT !.heartbeatTimer = FALSE]

startHeartbeat(c) == [stopHeartbeat(c) EXCEPT !.heartbeatTimer = TRUE]

ReachedMaxAttempts_OffByOne(a) == a > maxReconnectAttempts

ReachedMaxAttempts(a) == a >= maxReconnectAttempts

NextReconnectDelay_NoCap(d) == d * 2

NextReconnectDelay(d) == Min(d * 2, maxReconnectDelay)

\* this.reconnectTimer = setTimeout(..., this.reconnectDelay): a pending
\* timer whose handle is overwritten stays pending, out of reach.
setReconnectTimer(c) ==
  [c EXCEPT !.orphans = IF c.reconnectTimer = "pending" THEN Min(@ + 1, MaxSched) ELSE @,
            !.reconnectTimer = "pending",
            !.timerDelay = c.reconnectDelay]

scheduleReconnect_NoClear(c) ==
  IF ReachedMaxAttempts(c.reconnectAttempts) THEN c
  ELSE [setReconnectTimer(c) EXCEPT
          !.reconnectDelay = NextReconnectDelay(c.reconnectDelay),
          !.scheduled = Min(c.scheduled + 1, MaxSched)]

scheduleReconnect(c) ==
  IF ReachedMaxAttempts(c.reconnectAttempts) THEN c
  ELSE [setReconnectTimer(clearReconnectTimer(c)) EXCEPT
          !.reconnectDelay = NextReconnectDelay(c.reconnectDelay),
          !.scheduled = Min(c.scheduled + 1, MaxSched)]

ResetBackoff(c) ==
  [c EXCEPT !.reconnectAttempts = 0, !.reconnectDelay = initialReconnectDelay]

handleOpen(c) == [ResetBackoff(c) EXCEPT !.scheduled = 0]

ShouldReconnect(code) == code # NORMAL_CLOSURE

handleClose(c, code) ==
  LET c1 == [stopHeartbeat(c) EXCEPT !.connectionId = 0, !.protocolInfo = "null"]
  IN IF ShouldReconnect(code) THEN scheduleReconnect(c1) ELSE c1

Decodes_Always(kind) == TRUE

\* JSON.parse(event.data) yields an envelope (otherwise the catch logs it).
Decodes(kind) == kind # "malformed"

Range(q) == {q[i] : i \in 1..Len(q)}

\* onMessage(handler): messageHandlers is a Set, kept in insertion order.
onMessage(c, h) ==
  IF h \in Range(c.messageHandlers) THEN c
  ELSE [c EXCEPT !.messageHandlers = Append(@, h)]

\* The unsubscribe function onMessage returned: messageHandlers.delete.
unsubscribe(c, h) ==
  [c EXCEPT !.messageHandlers = SelectSeq(@, LAMBDA x : x # h)]

RECURSIVE NotifyHandlers_NoCatch(_, _)
NotifyHandlers_NoCatch(hs, throwers) ==
  IF hs = <<>> THEN <<>>
  ELSE IF Head(hs) \in throwers THEN <<[h |-> Head(hs), threw |-> TRUE]>>
  ELSE <<[h |-> Head(hs), threw |-> FALSE]>> \o NotifyHandlers_NoCatch(Tail(hs), throwers)

NotifyHandlers_FirstOnly(hs, throwers) ==
  IF hs = <<>> THEN <<>> ELSE <<[h |-> Head(hs), threw |-> Head(hs) \in throwers]>>

\* messageHandlers.forEach with a try / catch around each call: the handlers
\* invoked, in order, and whether each threw.
RECURSIVE NotifyHandlers(_, _)
NotifyHandlers(hs, throwers) ==
  IF hs = <<>> THEN <<>>
  ELSE <<[h |-> Head(hs), threw |-> Head(hs) \in throwers]>>
         \o NotifyHandlers(Tail(hs), throwers)

\* The handlers handleMessage invokes for a frame of the given kind.
Invocations(c, kind, throwers) ==
  IF Decodes(kind) THEN NotifyHandlers(c.messageHandlers, throwers) ELSE <<>>

handleMessage(c, msg) ==
  IF ~Decodes(msg.kind) THEN c
  ELSE IF msg.kind = "connected"
       THEN LET c1 == [c EXCEPT !.connectionId = msg.id,
                                !.protocolInfo = msg.payload]
            IN IF msg.payload = "heartbeat" THEN startHeartbeat(c1) ELSE c1
       ELSE c

CanSend_AnySocket(c, rs) == c.ws # 0

\* send(): TRUE when the frame is handed to the socket, FALSE when it throws.
CanSend(c, rs) == c.ws # 0 /\ rs[c.ws] = "OPEN"

\* No send() has been called yet.
NoOutput == [frames |-> <<>>, error |-> FALSE]

\* send(message): one frame on the wire, or the "WebSocket not connected" error.
send(c, rs, type) ==
  IF CanSend(c, rs) THEN [frames |-> <<type>>, error |-> FALSE]
  ELSE [frames |-> <<>>, error |-> TRUE]

\* sendHeartbeat(): send a ping; the error of a failed send is caught.
sendHeartbeat(c, rs) == [send(c, rs, "ping") EXCEPT !.error = FALSE]

\* -------------------------------------------------- WebSocket objects
\* A CLOSED object delivers no further event; once the client drops its
\* reference the object is garbage and its slot is free again.
Collect(rs, s) == IF s # 0 /\ rs[s] = "CLOSED" THEN [rs EXCEPT ![s] = "NONE"] ELSE rs

FreeSocket(rs) ==
  CHOOSE s \in Sockets : rs[s] = "NONE" /\ \A t \in Sockets : rs[t] = "NONE" => s <= t

HasRoom(c, rs) == \E s \in Sockets : Collect(rs, c.ws)[s] = "NONE"

\* WebSocket.close(): CONNECTING and OPEN become CLOSING, otherwise no effect.
CloseSocket(rs, s) ==
  IF rs[s] \in {"CONNECTING", "OPEN"} THEN [rs EXCEPT ![s] = "CLOSING"] ELSE rs

\* The close codes the close event of socket s can carry: a connection that
\* never opened fails with 1006; an open one is closed by the server (1000,
\* 1001) or dropped (1006); one the client closed with close(), which sends
\* no status, ends with the server's echo (1005), the server's own normal
\* status (1000) or a drop (1006).
PossibleCodes(s) ==
  IF ~established[s] THEN {1006}
  ELSE IF readyState[s] = "OPEN" THEN {NORMAL_CLOSURE, 1001, 1006}
  ELSE {NORMAL_CLOSURE, 1005, 1006}

\* -------------------------------------------------------- public methods
AlreadyConnected(c, rs) == c.ws # 0 /\ rs[c.ws] = "OPEN"

\* connect(): the client and socket states after the call.
connect(c, rs, es) ==
  IF AlreadyConnected(c, rs) THEN [c |-> c, rs |-> rs, es |-> es]
  ELSE IF urlOk
       THEN LET rs1 == Collect(rs, c.ws)
                n == FreeSocket(rs1)
            IN [c |-> [c EXCEPT !.ws = n],
                rs |-> [rs1 EXCEPT ![n] = "CONNECTING"],
                es |-> [es EXCEPT ![n] = FALSE]]
       ELSE [c |-> scheduleReconnect(c), rs |-> rs, es |-> es]

\* disconnect(): the client and socket states after the call.
disconnect(c, rs) ==
  LET c1 == clearReconnectTimer(stopHeartbeat(c))
      rs1 == IF c.ws # 0 THEN Collect(CloseSocket(rs, c.ws), c.ws) ELSE rs
  IN [c |-> [c1 EXCEPT !.ws = 0, !.connectionId = 0, !.reconnectAttempts = 0],
      rs |-> rs1]

\* ------------------------------------------------------ extension store
CommandStatus == {"queued", "executing", "completed", "failed", "cancelled", "timeout"}

TerminalStatus == {"completed", "failed", "cancelled", "timeout"}

\* The store when the service worker starts; a command the store does not
\* hold has status "absent".
NewStore ==
  [ connectionStatus |-> "disconnected",
    connectionId |-> 0,
    protocolVersion |-> "null",
    commands |-> [c \in CmdIds |-> "absent"],
    messages |-> 0,
    assistants |-> {},
    queueStatus |-> <<0, 0>> ]

setConnectionStatus(st, status) == [st EXCEPT !.connectionStatus = status]

setConnectionId(st, id) == [st EXCEPT !.connectionId = id]

setProtocolVersion(st, v) == [st EXCEPT !.protocolVersion = v]

addMessage(st) == [st EXCEPT !.messages = Min(@ + 1, MaxStoreMessages)]

setAssistants(st, as) == [st EXCEPT !.assistants = as]

addAssistant(st, a) == [st EXCEPT !.assistants = @ \cup {a}]

setQueueStatus(st, q, e) == [st EXCEPT !.queueStatus = <<q, e>>]

\* The store takes a command the user submitted.
addCommand(st, c) == [st EXCEPT !.commands[c] = "queued"]

updateCommand_Overwrite(st, c, status) ==
  IF st.commands[c] = "absent" THEN st ELSE [st EXCEPT !.commands[c] = status]

\* updateCommand(id, {status}): a command in a terminal status keeps it.
updateCommand(st, c, status) ==
  IF st.commands[c] = "absent" \/ st.commands[c] \in TerminalStatus THEN st
  ELSE [st EXCEPT !.commands[c] = status]

\* ------------------------------------------- background script: the router
handleWebSocketMessage_DefaultIsError(st, msg) ==
  CASE msg.kind = "connected" ->
         setProtocolVersion(
           setConnectionId(setConnectionStatus(st, "connected"), msg.id), "set")
    [] msg.kind = "status_update" ->
         IF msg.corr # 0 THEN updateCommand(st, msg.corr, msg.payload) ELSE st
    [] msg.kind = "response" ->
         IF msg.payload = "content" THEN addMessage(st) ELSE st
    [] msg.kind = "assistant_list" -> setAssistants(st, msg.payload)
    [] msg.kind = "assistant_created" -> addAssistant(st, msg.payload)
    [] msg.kind = "queue_status" -> setQueueStatus(st, msg.payload[1], msg.payload[2])
    [] msg.kind = "pong" -> st
    [] OTHER -> setConnectionStatus(st, "error")

\* handleWebSocketMessage: the switch on message.type (tool_execution is the
\* forwarding routine below).
handleWebSocketMessage(st, msg) ==
  CASE msg.kind = "connected" ->
         setProtocolVersion(
           setConnectionId(setConnectionStatus(st, "connected"), msg.id), "set")
    [] msg.kind = "status_update" ->
         IF msg.corr # 0 THEN updateCommand(st, msg.corr, msg.payload) ELSE st
    [] msg.kind = "response" ->
         IF msg.payload = "content" THEN addMessage(st) ELSE st
    [] msg.kind = "assistant_list" -> setAssistants(st, msg.payload)
    [] msg.kind = "assistant_created" -> addAssistant(st, msg.payload)
    [] msg.kind = "queue_status" -> setQueueStatus(st, msg.payload[1], msg.payload[2])
    [] msg.kind = "pong" -> st
    [] OTHER -> st

\* No numbered frame has been received.
NoFrame == [kind |-> "none", payload |-> "null", corr |-> 0, invoked |-> <<>>]

\* ------------------------------ side panel and background script: relay
\* Nothing has been relayed.
NoEnvelope == [type |-> "none", payload |-> [command_id |-> 0]]

\* The protocol's cancel_command envelope for command c.
CancelEnvelope(c) == [type |-> "cancel_command", payload |-> [command_id |-> c]]

\* handleCancelCommand: the runtime message the command-queue panel sends to
\* the background script.
handleCancelCommand(c) == [type |-> "send_command", payload |-> CancelEnvelope(c)]

\* The runtime listener's send_command case: the envelope it hands to
\* wsClient.send().
RelayedEnvelope(message) == [type |-> "command", payload |-> message.payload]

\* ------------------------------- background script: the client instances
\* Only wsClient's instance exists and every socket is its own.
NewWorker ==
  [ retired |-> [i \in Instances |-> NewClient],
    owner |-> [s \in Sockets |-> 0] ]

\* Instance `me` with fields c has a connecting or open socket or a pending
\* reconnect timer.
Live(c, me, rs, own) ==
  \/ c.reconnectTimer = "pending"
  \/ \E s \in Sockets : own[s] = me /\ rs[s] \in {"CONNECTING", "OPEN"}

\* Instance `me` is still reachable from a callback the browser may run: a
\* socket that has not delivered its close event, or a pending timer.
Referenced(c, me, rs, own) ==
  \/ c.reconnectTimer = "pending"
  \/ \E s \in Sockets : own[s] = me /\ rs[s] \in {"CONNECTING", "OPEN", "CLOSING"}

\* The socket owners once instance i has acted and left the sockets in
\* states rs with its ws field naming socket w.
Owners(own, rs, i, w) ==
  [s \in Sockets |-> IF rs[s] = "NONE" THEN 0 ELSE IF s = w THEN i ELSE own[s]]

\* ------------------------------------------- backend: the command queue
\* No command has been enqueued.
NewQueue == [status |-> [c \in Commands |-> "none"], rejected |-> FALSE]

QueuedCount(q) == Cardinality({c \in Commands : q.status[c] = "queued"})

ExecutingCount(q) == Cardinality({c \in Commands : q.status[c] = "executing"})

\* The number of commands enqueued so far.
Enqueued(q) == Cardinality({c \in Commands : q.status[c] # "none"})

Oldest(cs) == CHOOSE c \in cs : \A d \in cs : c <= d

Newest(cs) == CHOOSE c \in cs : \A d \in cs : c >= d

NextToRun_Newest(q) == Newest({c \in Commands : q.status[c] = "queued"})

\* FIFO: the queued command enqueued first.
NextToRun(q) == Oldest({c \in Commands : q.status[c] = "queued"})

HasSlot(q) == ExecutingCount(q) < MaxConcurrent

\* Dispatch: while a concurrency slot is free and a command is queued, the
\* next queued command starts executing.
RECURSIVE Promote(_)
Promote(q) ==
  IF HasSlot(q) /\ QueuedCount(q) > 0
  THEN Promote([q EXCEPT !.status[NextToRun(q)] = "executing"])
  ELSE q

\* enqueue(): QueueFull at capacity, otherwise a new queued command and an
\* immediate dispatch attempt.
enqueue(q) ==
  IF QueuedCount(q) >= MaxQueued THEN [q EXCEPT !.rejected = TRUE]
  ELSE Promote([q EXCEPT !.status[Enqueued(q) + 1] = "queued", !.rejected = FALSE])

\* A command ends (completed, failed, cancelled, timeout): its slot, if it
\* held one, is released and the next queued command promoted.
finish(q, c, outcome) ==
  IF q.status[c] \in {"queued", "executing"}
  THEN Promote([q EXCEPT !.status[c] = outcome, !.rejected = FALSE])
  ELSE [q EXCEPT !.rejected = FALSE]

\* The timeout monitor's sweep when the deadlines of commands 1..k have
\* passed: each of them still queued or executing times out.
RECURSIVE sweep_ExecutingOnly(_, _)
sweep_ExecutingOnly(q, k) ==
  IF k = 0 THEN [q EXCEPT !.rejected = FALSE]
  ELSE IF q.status[k] = "executing"
       THEN finish(sweep_ExecutingOnly(q, k - 1), k, "timeout")
       ELSE sweep_ExecutingOnly(q, k - 1)

RECURSIVE sweep(_, _)
sweep(q, k) == IF k = 0 THEN [q EXCEPT !.rejected = FALSE]
               ELSE finish(sweep(q, k - 1), k, "timeout")

\* ------------------------------------- background script: tool forwarding
\* One tool_execution envelope and the progress of
\* forwardToolExecutionToContent for it.  id and corr are the envelope's id
\* and correlation_id (0: absent); sent counts the tool_result frames put on
\* the wire for it, sentCorr / sentSuccess are the fields of the last one;
\* threw records that the routine ended in an uncaught "not connected" error.
NoTool ==
  [ pc |-> "idle", id |-> 0, corr |-> 0, tool |-> "none",
    sent |-> 0, sentCorr |-> 0, sentSuccess |-> FALSE, threw |-> FALSE ]

\* Envelope types the background script sends on behalf of the side panel.
SendTypes == {"command"}

ToolNames == {"navigate", "screenshot", "bogus"}

\* The content script's answer to execute_tool: the tool's switch, where
\* domOk says whether the DOM controller call of a known tool succeeds.
executeTool(tool, domOk) ==
  CASE tool = "navigate" -> [present |-> TRUE, success |-> domOk]
    [] tool = "screenshot" -> [present |-> TRUE, success |-> FALSE]
    [] OTHER -> [present |-> TRUE, success |-> FALSE]

\* chrome.tabs.sendMessage resolving with undefined.
NoResponse == [present |-> FALSE, success |-> FALSE]

\* correlation_id the background script puts into the tool_result.
ResultCorrelationId(r) == r.corr

\* wsClient.send() of a tool_result for request r succeeded.
SendToolResult(r, success) ==
  [r EXCEPT !.sent = @ + 1, !.sentCorr = ResultCorrelationId(r), !.sentSuccess = success]

\* The routine returns: its locals (the envelope's payload) are dead.
Finish(r) == [r EXCEPT !.pc = "done", !.corr = 0, !.tool = "none"]

\* The catch block: send an error result; a throwing send ends the routine.
CatchPath(r, c, rs) ==
  IF CanSend(c, rs) THEN Finish(SendToolResult(r, FALSE))
  ELSE Finish([r EXCEPT !.threw = TRUE])

AfterResponse_CatchAfterSend(r, response, c, rs) ==
  IF ~response.present THEN Finish(r)
  ELSE IF CanSend(c, rs) THEN CatchPath(SendToolResult(r, response.success), c, rs)
  ELSE CatchPath(r, c, rs)

\* After chrome.tabs.sendMessage resolved with response.
AfterResponse(r, response, c, rs) ==
  IF ~response.present THEN Finish(r)
  ELSE IF CanSend(c, rs) THEN Finish(SendToolResult(r, response.success))
  ELSE CatchPath(r, c, rs)

\* The outcome of the send() calls of one step of the routine, from request
\* state r to r2: a tool_result on the wire, the uncaught error, or no call.
ToolOutput(r, r2, o) ==
  IF r2.sent > r.sent THEN [frames |-> <<"tool_result">>, error |-> FALSE]
  ELSE IF r2.threw THEN [frames |-> <<>>, error |-> TRUE]
  ELSE o

\* ---------------------------------------------------------------- actions
Init ==
  /\ readyState = [s \in Sockets |-> "NONE"]
  /\ established = [s \in Sockets |-> FALSE]
  /\ client = NewClient
  /\ urlOk \in BOOLEAN
  /\ userDisconnected = FALSE
  /\ missedPongs = 0
  /\ tools = [t \in ToolSlots |-> NoTool]
  /\ out = NoOutput
  /\ lastFrame = NoFrame
  /\ store = NewStore
  /\ worker = NewWorker
  /\ queue = NewQueue
  /\ relayed = NoEnvelope
  /\ received = 0
  /\ lastSeen = [h \in {Router} \cup Handlers |-> 0]

\* An explicit connect() call.
UserConnect ==
  /\ UNCHANGED <<store, worker, queue, relayed>>
  /\ UNCHANGED dispatchVars
  /\ AlreadyConnected(client, readyState) \/ ~urlOk \/ HasRoom(client, readyState)
  /\ LET r == connect(client, readyState, established)
     IN /\ client' = r.c
        /\ readyState' = r.rs
        /\ established' = r.es
  /\ userDisconnected' = FALSE
  /\ UNCHANGED <<urlOk, missedPongs, tools, out>>

\* An explicit disconnect() call.
UserDisconnect ==
  /\ UNCHANGED <<store, worker, queue, relayed>>
  /\ UNCHANGED dispatchVars
  /\ LET r == disconnect(client, readyState)
     IN /\ client' = r.c
        /\ readyState' = r.rs
  /\ userDisconnected' = TRUE
  /\ missedPongs' = 0
  /\ UNCHANGED <<established, urlOk, tools, out>>

\* The browser completes the opening handshake of socket s: onopen.
SocketOpen(s) ==
  /\ UNCHANGED <<store, worker, queue, relayed>>
  /\ UNCHANGED dispatchVars
  /\ readyState[s] = "CONNECTING"
  /\ readyState' = [readyState EXCEPT ![s] = "OPEN"]
  /\ established' = [established EXCEPT ![s] = TRUE]
  /\ client' = handleOpen(client)
  /\ UNCHANGED <<urlOk, userDisconnected, missedPongs, tools, out>>

\* Socket s closes (failed attempt, network drop, server close, or the end
\* of a close() the client started): onclose with the given code.
SocketClose(s, code) ==
  /\ UNCHANGED <<store, worker, queue, relayed>>
  /\ UNCHANGED dispatchVars
  /\ readyState[s] \in {"CONNECTING", "OPEN", "CLOSING"}
  /\ code \in PossibleCodes(s)
  /\ readyState' = [readyState EXCEPT ![s] = IF s = client.ws THEN "CLOSED" ELSE "NONE"]
  /\ client' = handleClose(client, code)
  /\ missedPongs' = 0
  /\ UNCHANGED <<established, urlOk, userDisconnected, tools, out>>

\* Inbound frames; seq numbers a frame in order of receipt (0: not numbered).
Messages ==
  [kind : {"malformed"}, id : {0}, payload : {"null"}, seq : {0}, corr : {0}]
  \cup [kind : {"connected"}, id : ConnIds, payload : {"heartbeat", "noheartbeat"},
         seq : {0}, corr : {0}]
  \cup [kind : {"pong", "other"}, id : {0}, payload : {"null"}, seq : {0}, corr : {0}]

\* The same frames as the n-th frame received.
NumberedMessages(n) ==
  [kind : {"malformed", "other"}, id : {0}, payload : {"null"}, seq : {n}, corr : {0}]
  \cup [kind : {"connected"}, id : ConnIds, payload : {"heartbeat"}, seq : {n}, corr : {0}]

\* The envelopes the router distinguishes, as the n-th frame received: the
\* payload is the new status of a status_update, the <<queued, executing>>
\* counts of a queue_status, whether a response has content, the assistants
\* of an assistant_list, the assistant of an assistant_created; "other" is a
\* type outside the router's switch.
RouterMessages(n) ==
  [kind : {"connected"}, id : ConnIds, payload : {"heartbeat"}, seq : {n}, corr : {0}]
  \cup [kind : {"status_update"}, id : {0}, payload : CommandStatus, seq : {n},
         corr : {0} \cup CmdIds]
  \cup [kind : {"response"}, id : {0}, payload : {"content", "empty"}, seq : {n}, corr : {0}]
  \cup [kind : {"queue_status"}, id : {0}, payload : {<<0, 0>>, <<1, 1>>}, seq : {n}, corr : {0}]
  \cup [kind : {"assistant_list"}, id : {0}, payload : {{}, {1}}, seq : {n}, corr : {0}]
  \cup [kind : {"assistant_created"}, id : {0}, payload : {1}, seq : {n}, corr : {0}]
  \cup [kind : {"pong", "other"}, id : {0}, payload : {"null"}, seq : {n}, corr : {0}]

\* A frame arrives on open socket s: onmessage.  throwers are the registered
\* handlers that throw when given this frame.
ServerMessage(s, msg, throwers) ==
  /\ UNCHANGED <<worker, queue, relayed>>
  /\ readyState[s] = "OPEN"
  /\ msg.seq = 0 \/ (msg.seq = received + 1 /\ msg.seq <= MaxFrames)
  /\ client' = handleMessage(client, msg)
  /\ store' = IF \E i \in 1..Len(Invocations(client, msg.kind, throwers)) :
                   Invocations(client, msg.kind, throwers)[i].h = Router
              THEN handleWebSocketMessage(store, msg) ELSE store
  /\ LET inv == Invocations(client, msg.kind, throwers)
     IN IF msg.seq = 0 THEN UNCHANGED dispatchVars
        ELSE /\ lastFrame' = [kind |-> msg.kind, payload |-> msg.payload,
                              corr |-> msg.corr, invoked |-> inv]
             /\ lastSeen' = [h \in DOMAIN lastSeen |->
                               IF \E i \in 1..Len(inv) : inv[i].h = h
                               THEN msg.seq ELSE lastSeen[h]]
             /\ received' = msg.seq
  /\ missedPongs' = IF msg.kind = "connected" /\ msg.payload = "heartbeat" THEN 0
                    ELSE IF msg.kind = "pong" /\ s = client.ws THEN 0
                    ELSE missedPongs
  /\ UNCHANGED <<readyState, established, urlOk, userDisconnected, tools, out>>

\* The reconnect timer expires: the setTimeout callback of scheduleReconnect.
ReconnectTimerFire ==
  /\ UNCHANGED <<store, worker, queue, relayed>>
  /\ UNCHANGED dispatchVars
  /\ client.reconnectTimer = "pending"
  /\ LET c1 == [client EXCEPT !.reconnectTimer = "fired",
                              !.reconnectAttempts = @ + 1]
     IN /\ AlreadyConnected(c1, readyState) \/ ~urlOk \/ HasRoom(c1, readyState)
        /\ LET r == connect(c1, readyState, established)
           IN /\ client' = r.c
              /\ readyState' = r.rs
              /\ established' = r.es
  /\ UNCHANGED <<urlOk, userDisconnected, missedPongs, tools, out>>

\* The heartbeat interval elapses: sendHeartbeat(), a failed send is caught.
HeartbeatTick ==
  /\ UNCHANGED <<store, worker, queue, relayed>>
  /\ UNCHANGED dispatchVars
  /\ client.heartbeatTimer
  /\ missedPongs' = IF CanSend(client, readyState)
                    THEN Min(missedPongs + 1, MaxMissed) ELSE missedPongs
  /\ out' = sendHeartbeat(client, readyState)
  /\ UNCHANGED <<readyState, established, client, urlOk, userDisconnected, tools>>

\* A caller hands an envelope of the given type to send(), as the background
\* script does for a send_command request of the side panel.
UserSend(type) ==
  /\ UNCHANGED <<store, worker, queue, relayed>>
  /\ UNCHANGED dispatchVars
  /\ out' = send(client, readyState, type)
  /\ UNCHANGED <<readyState, established, client, urlOk, userDisconnected, missedPongs, tools>>

\* A caller registers handler h with onMessage().
OnMessage(h) ==
  /\ UNCHANGED <<store, worker, queue, relayed>>
  /\ client' = onMessage(client, h)
  /\ UNCHANGED <<readyState, established, urlOk, userDisconnected, missedPongs, tools, out>>
  /\ UNCHANGED dispatchVars

\* A caller calls the unsubscribe function of handler h.
Unsubscribe(h) ==
  /\ UNCHANGED <<store, worker, queue, relayed>>
  /\ h \in Range(client.messageHandlers)
  /\ client' = unsubscribe(client, h)
  /\ UNCHANGED <<readyState, established, urlOk, userDisconnected, missedPongs, tools, out>>
  /\ UNCHANGED dispatchVars

\* The user submits command c in the side panel, which refuses unless the
\* store says connected: the store records the command.
SubmitCommand(c) ==
  /\ UNCHANGED <<worker, queue, relayed>>
  /\ store.connectionStatus = "connected"
  /\ store.commands[c] = "absent"
  /\ store' = addCommand(store, c)
  /\ UNCHANGED <<readyState, established, client, urlOk, userDisconnected, missedPongs,
                 tools, out>>
  /\ UNCHANGED dispatchVars

\* initializeWebSocket(): wsClient is overwritten with a new client, the
\* router is registered on it and it connects; the store is told
\* "connecting".  Nothing disconnects the instance wsClient named before: if a
\* socket or timer still references it, it lives on with its callbacks.
InitializeWebSocket ==
  LET keep == Referenced(client, 0, readyState, worker.owner)
      free == {i \in Instances :
                 ~Referenced(worker.retired[i], i, readyState, worker.owner)}
  IN /\ keep => free # {}
     /\ LET j == IF keep THEN CHOOSE i \in free : \A k \in free : i <= k ELSE 0
            rs1 == [s \in Sockets |->
                      IF readyState[s] = "CLOSED" /\ worker.owner[s] = j
                      THEN "NONE" ELSE readyState[s]]
            own1 == [s \in Sockets |->
                       IF rs1[s] = "NONE" THEN 0
                       ELSE IF worker.owner[s] = 0 THEN j ELSE worker.owner[s]]
            r == connect(onMessage(NewClient, Router), rs1, established)
        IN /\ ~urlOk \/ \E s \in Sockets : rs1[s] = "NONE"
           /\ client' = r.c
           /\ readyState' = r.rs
           /\ established' = r.es
           /\ worker' = [retired |-> IF keep THEN [worker.retired EXCEPT ![j] = client]
                                     ELSE worker.retired,
                         owner |-> own1]
     /\ store' = setConnectionStatus(store, "connecting")
     /\ userDisconnected' = FALSE
     /\ missedPongs' = 0
     /\ UNCHANGED <<urlOk, tools, out, queue, relayed>>
     /\ UNCHANGED dispatchVars

\* chrome.runtime.onInstalled.
OnInstalled == InitializeWebSocket

\* chrome.runtime.onStartup: handleTabRefresh() and then the listener itself
\* initialise when wsClient reports DISCONNECTED; the client the first of
\* them creates is connecting, so the second then does nothing.
OnStartup ==
  /\ urlOk
  /\ getStatus = "disconnected"
  /\ InitializeWebSocket

\* onopen of socket s of the superseded instance i.
RetiredSocketOpen(i, s) ==
  /\ worker.owner[s] = i
  /\ readyState[s] = "CONNECTING"
  /\ readyState' = [readyState EXCEPT ![s] = "OPEN"]
  /\ established' = [established EXCEPT ![s] = TRUE]
  /\ worker' = [worker EXCEPT !.retired[i] = handleOpen(@)]
  /\ UNCHANGED <<client, urlOk, userDisconnected, missedPongs, tools, out, store, queue, relayed>>
  /\ UNCHANGED dispatchVars

\* onclose of socket s of the superseded instance i.
RetiredSocketClose(i, s, code) ==
  /\ worker.owner[s] = i
  /\ readyState[s] \in {"CONNECTING", "OPEN", "CLOSING"}
  /\ code \in PossibleCodes(s)
  /\ LET c == worker.retired[i]
         rs1 == [readyState EXCEPT ![s] = IF s = c.ws THEN "CLOSED" ELSE "NONE"]
     IN /\ readyState' = rs1
        /\ worker' = [retired |-> [worker.retired EXCEPT ![i] = handleClose(c, code)],
                      owner |-> Owners(worker.owner, rs1, i, c.ws)]
  /\ UNCHANGED <<established, client, urlOk, userDisconnected, missedPongs, tools, out,
                 store, queue, relayed>>
  /\ UNCHANGED dispatchVars

\* The reconnect timer of the superseded instance i expires.
RetiredTimerFire(i) ==
  /\ worker.retired[i].reconnectTimer = "pending"
  /\ LET c1 == [worker.retired[i] EXCEPT !.reconnectTimer = "fired",
                                         !.reconnectAttempts = @ + 1]
     IN /\ AlreadyConnected(c1, readyState) \/ ~urlOk \/ HasRoom(c1, readyState)
        /\ LET r == connect(c1, readyState, established)
           IN /\ readyState' = r.rs
              /\ established' = r.es
              /\ worker' = [retired |-> [worker.retired EXCEPT ![i] = r.c],
                            owner |-> Owners(worker.owner, r.rs, i, r.c.ws)]
  /\ UNCHANGED <<client, urlOk, userDisconnected, missedPongs, tools, out, store, queue, relayed>>
  /\ UNCHANGED dispatchVars

\* A frame arrives on open socket s of the superseded instance i, whose
\* handlers (the router among them) are given it.
RetiredMessage(i, s, msg) ==
  /\ worker.owner[s] = i
  /\ readyState[s] = "OPEN"
  /\ worker' = [worker EXCEPT !.retired[i] = handleMessage(@, msg)]
  /\ store' = IF Router \in {x.h : x \in Range(Invocations(worker.retired[i], msg.kind, {}))}
              THEN handleWebSocketMessage(store, msg) ELSE store
  /\ UNCHANGED <<readyState, established, client, urlOk, userDisconnected, missedPongs,
                 tools, out, queue, relayed>>
  /\ UNCHANGED dispatchVars

\* enqueue(actor_id, spec).
Enqueue ==
  /\ Enqueued(queue) < MaxCommands
  /\ queue' = enqueue(queue)
  /\ UNCHANGED extensionVars

\* The orchestration driving executing command c declares completion or failure.
Complete(c, outcome) ==
  /\ queue.status[c] = "executing"
  /\ queue' = finish(queue, c, outcome)
  /\ UNCHANGED extensionVars

\* cancel(command_id): a no-op on a terminal command.
Cancel(c) ==
  /\ queue.status[c] # "none"
  /\ queue' = finish(queue, c, "cancelled")
  /\ UNCHANGED extensionVars

\* The timeout monitor sweeps; timeout_at is fixed at enqueue time, so the
\* deadlines pass in the order of enqueueing.
TimeoutSweep(k) ==
  /\ k <= Enqueued(queue)
  /\ queue' = sweep(queue, k)
  /\ UNCHANGED extensionVars

\* The user presses the cancel button of command c, shown for a queued or
\* executing command and enabled while the store says connected: the panel's
\* runtime message reaches the background listener, which sends.
CancelCommand(c) ==
  /\ store.commands[c] \in {"queued", "executing"}
  /\ store.connectionStatus = "connected"
  /\ relayed' = RelayedEnvelope(handleCancelCommand(c))
  /\ out' = send(client, readyState, RelayedEnvelope(handleCancelCommand(c)).type)
  /\ UNCHANGED <<readyState, established, client, urlOk, userDisconnected, missedPongs,
                 tools, store, worker, queue>>
  /\ UNCHANGED dispatchVars

\* A tool_execution envelope arrives on open socket s; handleMessage hands it
\* to handleWebSocketMessage, which starts forwardToolExecutionToContent and
\* awaits chrome.tabs.query.
ToolExecutionArrives(s, t, corr, tool) ==
  /\ UNCHANGED <<store, worker, queue, relayed>>
  /\ readyState[s] = "OPEN"
  /\ tools[t].pc = "idle"
  /\ \A u \in ToolSlots : u < t => tools[u].pc # "idle"
  /\ tools' = [tools EXCEPT ![t] = [NoTool EXCEPT !.pc = "query", !.id = ExecId(t),
                                                  !.corr = corr, !.tool = tool]]
  /\ client' = handleMessage(client, [kind |-> "tool_execution", id |-> ExecId(t),
                                       payload |-> tool, seq |-> 0, corr |-> corr])
  /\ UNCHANGED dispatchVars
  /\ UNCHANGED <<readyState, established, urlOk, userDisconnected, missedPongs, out>>

\* chrome.tabs.query resolves: without an active tab the routine throws.
TabsQueryReturns(t, hasTab) ==
  /\ UNCHANGED <<store, worker, queue, relayed>>
  /\ UNCHANGED dispatchVars
  /\ tools[t].pc = "query"
  /\ tools' = [tools EXCEPT ![t] =
                 IF hasTab THEN [@ EXCEPT !.pc = "sendMessage"]
                 ELSE CatchPath(@, client, readyState)]
  /\ out' = ToolOutput(tools[t], tools'[t], out)
  /\ UNCHANGED <<readyState, established, client, urlOk, userDisconnected, missedPongs>>

\* chrome.tabs.sendMessage settles: with the content script's response, with
\* undefined (no listener answered), or rejected (no receiving end).
ContentResponds(t, delivery, domOk) ==
  /\ UNCHANGED <<store, worker, queue, relayed>>
  /\ UNCHANGED dispatchVars
  /\ tools[t].pc = "sendMessage"
  /\ tools' = [tools EXCEPT ![t] =
                 CASE delivery = "response" ->
                        AfterResponse(@, executeTool(@.tool, domOk), client, readyState)
                   [] delivery = "undefined" ->
                        AfterResponse(@, NoResponse, client, readyState)
                   [] OTHER -> CatchPath(@, client, readyState)]
  /\ out' = ToolOutput(tools[t], tools'[t], out)
  /\ UNCHANGED <<readyState, established, client, urlOk, userDisconnected, missedPongs>>

Next ==
  \/ UserConnect
  \/ UserDisconnect
  \/ \E s \in Sockets : SocketOpen(s)
  \/ \E s \in Sockets, code \in CloseCodes : SocketClose(s, code)
  \/ \E s \in Sockets, msg \in Messages : ServerMessage(s, msg, {})
  \/ ReconnectTimerFire
  \/ HeartbeatTick
  \/ \E type \in SendTypes : UserSend(type)

Spec == Init /\ [][Next]_vars

\* The background script serving tool executions over a connection whose
\* attempts succeed and which the server closes normally.
ToolInit == Init /\ urlOk

ToolNext ==
  \/ UserConnect
  \/ UserDisconnect
  \/ \E s \in Sockets : SocketOpen(s)
  \/ \E s \in Sockets : established[s] /\ SocketClose(s, NORMAL_CLOSURE)
  \/ \E s \in Sockets, t \in ToolSlots, corr \in {0} \cup CmdIds,
        tool \in ToolNames : ToolExecutionArrives(s, t, corr, tool)
  \/ \E t \in ToolSlots, hasTab \in BOOLEAN : TabsQueryReturns(t, hasTab)
  \/ \E t \in ToolSlots, delivery \in {"response", "undefined", "rejected"},
        domOk \in BOOLEAN : ContentResponds(t, delivery, domOk)

ToolSpec == ToolInit /\ [][ToolNext]_vars

\* Callers registering handlers and the client dispatching numbered inbound
\* frames to them, over a connection as in ToolSpec.
HandlerInit == Init /\ urlOk

HandlerNext ==
  \/ UserConnect
  \/ \E s \in Sockets : SocketOpen(s)
  \/ \E s \in Sockets : established[s] /\ SocketClose(s, NORMAL_CLOSURE)
  \/ \E h \in Handlers : OnMessage(h)
  \/ \E h \in Handlers : Unsubscribe(h)
  \/ \E s \in Sockets, msg \in NumberedMessages(received + 1),
        throwers \in SUBSET Handlers : ServerMessage(s, msg, throwers)

HandlerSpec == HandlerInit /\ [][HandlerNext]_vars

\* initializeWebSocket(): a new client with the router registered starts
\* connecting and the store is told so.
RouterInit ==
  /\ urlOk = TRUE
  /\ LET r == connect(onMessage(NewClient, Router),
                      [s \in Sockets |-> "NONE"], [s \in Sockets |-> FALSE])
     IN /\ client = r.c
        /\ readyState = r.rs
        /\ established = r.es
  /\ store = setConnectionStatus(NewStore, "connecting")
  /\ worker = NewWorker
  /\ queue = NewQueue
  /\ relayed = NoEnvelope
  /\ userDisconnected = FALSE
  /\ missedPongs = 0
  /\ tools = [t \in ToolSlots |-> NoTool]
  /\ out = NoOutput
  /\ lastFrame = NoFrame
  /\ received = 0
  /\ lastSeen = [h \in {Router} \cup Handlers |-> 0]

\* The background script routing the server's envelopes into the store.
RouterNext ==
  \/ \E s \in Sockets : SocketOpen(s)
  \/ \E s \in Sockets : established[s] /\ SocketClose(s, NORMAL_CLOSURE)
  \/ \E c \in CmdIds : SubmitCommand(c)
  \/ \E c \in CmdIds : CancelCommand(c)
  \/ \E s \in Sockets, msg \in RouterMessages(received + 1) : ServerMessage(s, msg, {})

RouterSpec == RouterInit /\ [][RouterNext]_vars

\* The service worker from the end of its script, which has called
\* initializeWebSocket() once, under the events Chrome and the sockets deliver.
WorkerInit == RouterInit

WorkerMessages ==
  [kind : {"connected"}, id : ConnIds, payload : {"heartbeat"}, seq : {0}, corr : {0}]
  \cup [kind : {"other"}, id : {0}, payload : {"null"}, seq : {0}, corr : {0}]

WorkerNext ==
  \/ OnStartup
  \/ OnInstalled
  \/ \E s \in Sockets : worker.owner[s] = 0 /\ SocketOpen(s)
  \/ \E s \in Sockets, code \in CloseCodes : worker.owner[s] = 0 /\ SocketClose(s, code)
  \/ \E s \in Sockets, msg \in WorkerMessages :
        worker.owner[s] = 0 /\ ServerMessage(s, msg, {})
  \/ ReconnectTimerFire
  \/ \E i \in Instances, s \in Sockets : RetiredSocketOpen(i, s)
  \/ \E i \in Instances, s \in Sockets, code \in CloseCodes : RetiredSocketClose(i, s, code)
  \/ \E i \in Instances, s \in Sockets, msg \in WorkerMessages : RetiredMessage(i, s, msg)
  \/ \E i \in Instances : RetiredTimerFire(i)

WorkerSpec == WorkerInit /\ [][WorkerNext]_vars

\* The client left to itself after a first connect(): no disconnect(), the
\* reconnect timer fires when due, and the server accepts connections again
\* before the attempts are exhausted: an attempt can fail only while the
\* counter is below the ceiling, and a connecting socket is answered.
ReconnectInit == Init /\ urlOk

ReconnectNext ==
  \/ client.ws = 0 /\ UserConnect
  \/ \E s \in Sockets : SocketOpen(s)
  \/ \E s \in Sockets, code \in CloseCodes :
        /\ readyState[s] = "CONNECTING" => client.reconnectAttempts < maxReconnectAttempts
        /\ SocketClose(s, code)
  \/ \E s \in Sockets, msg \in Messages : ServerMessage(s, msg, {})
  \/ ReconnectTimerFire
  \/ HeartbeatTick

ReconnectSpec ==
  /\ ReconnectInit
  /\ [][ReconnectNext]_vars
  /\ WF_vars(ReconnectTimerFire)
  /\ \A s \in Sockets : WF_vars(SocketOpen(s))

\* The backend's command queue under its callers and its timeout monitor.
QueueInit == Init /\ urlOk

QueueNext ==
  \/ Enqueue
  \/ \E c \in Commands, outcome \in {"completed", "failed"} : Complete(c, outcome)
  \/ \E c \in Commands : Cancel(c)
  \/ \E k \in Commands : TimeoutSweep(k)

QueueSpec == QueueInit /\ [][QueueNext]_vars

\* ==================================================================== claims

\* The step creates a WebSocket object.
SocketCreated == \E s \in Sockets : readyState[s] # "CONNECTING" /\ readyState'[s] = "CONNECTING"

\* C1: after disconnect(), until the next explicit connect(), no reconnect
\* timer is pending and the client holds no socket (it started no attempt),
\* also after the close event of the socket disconnect() closed.
C1_NoReconnectAfterDisconnect ==
  userDisconnected => client.reconnectTimer # "pending" /\ client.ws = 0

\* min(base * 2^n, cap) for the n-th (from 0) scheduled reconnect.
RECURSIVE Pow2(_)
Pow2(n) == IF n = 0 THEN 1 ELSE 2 * Pow2(n - 1)

Backoff(n) == Min(initialReconnectDelay * Pow2(n), maxReconnectDelay)

\* C2: the k-th reconnect scheduled since the last successful open (or since
\* construction) is scheduled with delay 1000, 2000, 4000, 8000, 16000,
\* 30000, 30000, ...; an open restarts the sequence at 1000.
C2_BackoffSequence ==
  /\ client.scheduled > 0 => client.timerDelay = Backoff(client.scheduled - 1)
  /\ client.scheduled = 0 => client.reconnectDelay = initialReconnectDelay

\* C2 witness: seven failures in a row after an open: the seventh reconnect
\* waits the capped delay.
C2_Witness ==
  /\ client.scheduled = 7
  /\ client.reconnectAttempts = 6
  /\ client.reconnectTimer = "pending"
  /\ client.timerDelay = maxReconnectDelay

\* C3: a close of the client's socket that was not started by disconnect()
\* (the socket was not CLOSING), below the attempt ceiling, schedules a
\* reconnect, whatever the close code.
C3_AnyUnexpectedCloseReconnects ==
  [][\A s \in Sockets, code \in CloseCodes :
       ( /\ SocketClose(s, code)
         /\ s = client.ws
         /\ readyState[s] # "CLOSING"
         /\ ~ReachedMaxAttempts(client.reconnectAttempts) )
       => client'.reconnectTimer = "pending"]_vars

\* C4: the attempt counter never exceeds 10; at 10 no reconnect is pending,
\* none is scheduled by any step, and only an explicit connect() creates a
\* socket.
C4_GivesUpAtCeiling ==
  /\ [](client.reconnectAttempts <= maxReconnectAttempts)
  /\ [](client.reconnectAttempts = maxReconnectAttempts
          => client.reconnectTimer # "pending")
  /\ [][client.reconnectAttempts = maxReconnectAttempts
          => /\ client'.reconnectTimer # "pending"
             /\ SocketCreated => UserConnect]_vars

\* C4 witness: the tenth attempt has failed and the client has given up.
C4_Witness ==
  /\ client.reconnectAttempts = maxReconnectAttempts
  /\ client.ws # 0 /\ readyState[client.ws] = "CLOSED"
  /\ client.reconnectTimer = "fired"
  /\ client.scheduled = maxReconnectAttempts

\* The reconnect attempts are exhausted: the counter is at the ceiling and
\* the last attempt has failed.
Exhausted ==
  /\ client.reconnectAttempts = maxReconnectAttempts
  /\ client.ws # 0 /\ readyState[client.ws] = "CLOSED"

\* C5: once the reconnect attempts are exhausted getStatus() is failed.
C5_FailedAfterExhaustion == Exhausted => getStatus = "failed"

\* C6: getStatus() changes only along connecting->connected,
\* connected->reconnecting, reconnecting->connected, reconnecting->failed and
\* connected->disconnected (by disconnect() only).  Read generously: an
\* explicit disconnect() may end in disconnected from any status, and an
\* explicit connect() may enter connecting from disconnected.
C6_StatusTransitions ==
  [][LET old == getStatus
         new == Status(client', readyState')
     IN old # new =>
          \/ <<old, new>> \in { <<"connecting", "connected">>,
                                <<"connected", "reconnecting">>,
                                <<"reconnecting", "connected">>,
                                <<"reconnecting", "failed">> }
          \/ new = "disconnected" /\ UserDisconnect
          \/ <<old, new>> = <<"disconnected", "connecting">> /\ UserConnect]_vars

\* C7: a connection on which more than k = 2 pings in a row went unanswered
\* is not reported connected any more (it was force-closed at the tick that
\* found two intervals without pong).
C7_StaleConnectionClosed ==
  missedPongs > 2 => getStatus # "connected"

\* C8: every tool_result sent carries the id of its tool_execution as
\* correlation_id.
C8_ResultCorrelatesToExecution ==
  \A t \in ToolSlots : tools[t].sent > 0 => tools[t].sentCorr = tools[t].id

\* C9: a tool_execution whose forwarding routine has ended without a send
\* failing for lack of a connection was answered by exactly one tool_result.
C9_EveryExecutionAnswered ==
  \A t \in ToolSlots :
    tools[t].pc = "done" /\ ~tools[t].threw => tools[t].sent = 1

\* C10: connect() called while the client's socket is open or connecting
\* creates no socket and changes no client state.
C10_ConnectIdempotent ==
  [][( /\ UserConnect
       /\ client.ws # 0
       /\ readyState[client.ws] \in {"OPEN", "CONNECTING"} )
     => UNCHANGED <<client, readyState, established>>]_vars

\* C11: send() without an open channel (no socket, or one not OPEN) throws
\* the not-connected error, puts nothing on the wire and changes no client or
\* socket state; with an open channel it puts exactly one frame, the
\* envelope's, on the wire.
C11_SendNeedsOpenChannel ==
  [][\A type \in SendTypes :
       UserSend(type) =>
         IF client.ws # 0 /\ readyState[client.ws] = "OPEN"
         THEN out' = [frames |-> <<type>>, error |-> FALSE]
         ELSE /\ out' = [frames |-> <<>>, error |-> TRUE]
              /\ UNCHANGED <<client, readyState, established>>]_vars

\* C11 witness: a send() on a socket that is still connecting has failed.
C11_Witness ==
  /\ out = [frames |-> <<>>, error |-> TRUE]
  /\ client.ws # 0 /\ readyState[client.ws] = "CONNECTING"

\* C12: for a decoded frame every registered handler is invoked exactly
\* once, in registration order, whichever of them throw.
C12_EveryHandlerInvokedInOrder ==
  [][\A s \in Sockets, msg \in NumberedMessages(received + 1),
        throwers \in SUBSET Handlers :
       (ServerMessage(s, msg, throwers) /\ msg.kind # "malformed")
       => /\ Len(lastFrame'.invoked) = Len(client.messageHandlers)
          /\ \A i \in 1..Len(client.messageHandlers) :
                /\ lastFrame'.invoked[i].h = client.messageHandlers[i]
                /\ lastFrame'.invoked[i].threw = (client.messageHandlers[i] \in throwers)]_vars

\* C12 witness: the handler registered first threw and the one registered
\* after it was still given the frame.
C12_Witness ==
  /\ lastFrame.kind = "other"
  /\ Len(lastFrame.invoked) = 2
  /\ lastFrame.invoked[1].threw
  /\ ~lastFrame.invoked[2].threw
  /\ lastSeen[lastFrame.invoked[2].h] = received

\* C16: a frame that cannot be decoded leaves the sockets and every field of
\* the client unchanged and is given to no handler; the socket it came on
\* stays open for the frames after it.
C16_MalformedFrameIgnored ==
  [][\A s \in Sockets, msg \in NumberedMessages(received + 1),
        throwers \in SUBSET Handlers :
       (ServerMessage(s, msg, throwers) /\ msg.kind = "malformed")
       => /\ UNCHANGED <<client, readyState, established, lastSeen>>
          /\ lastFrame'.invoked = <<>>
          /\ readyState'[s] = "OPEN"]_vars

\* C16 witness: an undecodable frame arrived on a handshaken connection with
\* a handler registered and a running heartbeat, which are all still there.
C16_Witness ==
  /\ lastFrame.kind = "malformed"
  /\ lastFrame.invoked = <<>>
  /\ client.messageHandlers # <<>>
  /\ client.connectionId # 0
  /\ client.heartbeatTimer
  /\ getStatus = "connected"

\* C17: a handler is given frames in the order of their receipt: whenever a
\* handler is invoked it is with the frame just received, whose number is
\* greater than that of any frame it was given before, and every handler
\* registered at that moment is given that frame in the same step.
C17_HandlersSeeFramesInOrder ==
  [][\A h \in Handlers :
       /\ lastSeen'[h] >= lastSeen[h]
       /\ lastSeen'[h] # lastSeen[h] => lastSeen'[h] = received + 1
       /\ (received' # received /\ lastFrame'.kind # "malformed"
              /\ h \in Range(client.messageHandlers))
            => lastSeen'[h] = received']_vars

\* C17 witness: two handlers have both been given three frames, the last
\* being the third received.
C17_Witness ==
  /\ received = 3
  /\ \A h \in {1, 2} : lastSeen[h] = 3
  /\ Len(lastFrame.invoked) = 2

\* C13: a `connected` envelope received on the client's open socket leaves
\* the heartbeat timer running, whatever its payload.
C13_HeartbeatAfterHandshake ==
  [][\A s \in Sockets, msg \in Messages :
       (ServerMessage(s, msg, {}) /\ msg.kind = "connected" /\ s = client.ws)
       => client'.heartbeatTimer]_vars

\* C14: no heartbeat timer is running while the client is disconnected.
C14_NoHeartbeatWhileDisconnected ==
  getStatus = "disconnected" => ~client.heartbeatTimer

\* C15: an envelope of a type outside the router's switch changes neither
\* the store nor the client, the sockets or the tool executions, and leaves
\* the router registered on an open socket for the envelopes after it.
C15_UnknownTypeDropped ==
  [][\A s \in Sockets, msg \in RouterMessages(received + 1) :
       (ServerMessage(s, msg, {}) /\ msg.kind = "other")
       => /\ UNCHANGED <<store, client, readyState, established, tools>>
          /\ lastFrame'.invoked = <<[h |-> Router, threw |-> FALSE]>>
          /\ readyState'[s] = "OPEN"]_vars

\* C15 witness: the router was given an envelope of unknown type as the
\* second frame of a connection whose handshake the store has recorded.
C15_Witness ==
  /\ lastFrame.kind = "other"
  /\ lastFrame.invoked = <<[h |-> Router, threw |-> FALSE]>>
  /\ received = 2
  /\ store.connectionStatus = "connected"
  /\ store.connectionId # 0

\* C18: the status the store records for a command, once terminal, is not
\* changed by any later status_update.
C18_TerminalStatusFinal ==
  [][\A c \in CmdIds :
       store.commands[c] \in TerminalStatus => store'.commands[c] = store.commands[c]]_vars

\* C18 witness: a status_update saying executing arrived for a command that
\* is recorded completed, and it still is.
C18_Witness ==
  /\ lastFrame.kind = "status_update"
  /\ lastFrame.payload = "executing"
  /\ lastFrame.corr # 0
  /\ store.commands[lastFrame.corr] = "completed"

\* C19: at most one WebSocketClient instance has a connecting or open socket
\* or a pending reconnect timer, and it is the one wsClient names: no
\* superseded instance is live.
C19_SingleConnection ==
  \A i \in Instances : ~Live(worker.retired[i], i, readyState, worker.owner)

\* C20: at most MaxConcurrent commands are executing; a command is queued
\* only while MaxConcurrent are executing, so while none has finished the
\* first MaxConcurrent enqueued are executing and the rest queued; and a
\* command that starts executing is older than every command left queued.
C20_ConcurrencyCapAndFifo ==
  [][/\ ExecutingCount(queue') <= MaxConcurrent
     /\ QueuedCount(queue') > 0 => ExecutingCount(queue') = MaxConcurrent
     /\ (\A c \in Commands : queue'.status[c] \in {"none", "queued", "executing"})
          => \A c \in Commands :
               queue'.status[c] = (IF c > Enqueued(queue') THEN "none"
                                   ELSE IF c <= MaxConcurrent THEN "executing"
                                   ELSE "queued")
     /\ \A c, d \in Commands :
          (queue.status[c] # "executing" /\ queue'.status[c] = "executing"
             /\ queue'.status[d] = "queued") => c < d]_vars

\* C20 witness: of 7 commands enqueued the first has completed, the 6th
\* was promoted beside the 2nd to 5th and the 7th is still queued.
C20_Witness ==
  /\ Enqueued(queue) = 7
  /\ queue.status[1] = "completed"
  /\ \A c \in 2..6 : queue.status[c] = "executing"
  /\ queue.status[7] = "queued"

\* C21: a sweep of the timeout monitor made when the deadlines of the first
\* k commands have passed leaves each of them that was queued or executing
\* in state timeout, whatever the actuator or the backend did, and releases
\* their slots: afterwards a command is queued only if MaxConcurrent are
\* executing.
C21_DeadlineMeansTimeout ==
  [][\A k \in Commands :
       TimeoutSweep(k)
       => /\ \A c \in 1..k :
               /\ queue.status[c] \in {"queued", "executing"} => queue'.status[c] = "timeout"
               /\ queue'.status[c] \notin {"queued", "executing"}
          /\ QueuedCount(queue') > 0 => ExecutingCount(queue') = MaxConcurrent]_vars

\* C21 witness: of 7 commands, never answered, the deadlines of the first 6
\* have passed: they timed out, the 6th from the queue, and the 7th runs in
\* a released slot.
C21_Witness ==
  /\ \A c \in 1..6 : queue.status[c] = "timeout"
  /\ queue.status[7] = "executing"

\* The connection the client had established is closed and the client has
\* not given up.
Dropped ==
  /\ client.ws # 0
  /\ established[client.ws]
  /\ readyState[client.ws] = "CLOSED"
  /\ client.reconnectAttempts < maxReconnectAttempts

\* C22: after the established connection closed without disconnect(), with
\* timers firing and the server accepting again before the attempt ceiling,
\* the client is eventually connected again.
C22_ReconnectsEventually == Dropped ~> (getStatus = "connected")

\* A step schedules a reconnect: a timer is pending afterwards that was not
\* pending before or was set anew.
ReconnectScheduled ==
  /\ client'.reconnectTimer = "pending"
  /\ \/ client.reconnectTimer # "pending"
     \/ client'.timerDelay # client.timerDelay
     \/ client'.scheduled # client.scheduled

\* C23: whenever a reconnect is scheduled its delay is
\* min(1000 * 2^attempt, 30000) for the attempt counter's value at that moment.
C23_DelayFollowsAttemptCounter ==
  [][ReconnectScheduled => client'.timerDelay = Backoff(client'.reconnectAttempts)]_vars

\* C24: cancelling a command while the client is connected puts on the wire
\* one envelope of type cancel_command whose payload carries the command's
\* id.
C24_CancelEnvelopeOnWire ==
  [][\A c \in CmdIds :
       (CancelCommand(c) /\ getStatus = "connected")
       => /\ out' = [frames |-> <<"cancel_command">>, error |-> FALSE]
          /\ relayed' = CancelEnvelope(c)]_vars

\* C25: whenever the store says connected, the client's socket is open:
\* getStatus() is connected.
C25_StoreStatusAgrees ==
  store.connectionStatus = "connected" => getStatus = "connected"

\* C26: the close event of a socket that is not the client's current one
\* leaves the heartbeat, the connection id, the protocol info and the
\* reconnect timer of the client as they were.
C26_StaleCloseIgnored ==
  [][\A s \in Sockets, code \in CloseCodes :
       (SocketClose(s, code) /\ s # client.ws)
       => /\ client'.heartbeatTimer = client.heartbeatTimer
          /\ client'.connectionId = client.connectionId
          /\ client'.protocolInfo = client.protocolInfo
          /\ client'.reconnectTimer = client.reconnectTimer
          /\ client'.timerDelay = client.timerDelay]_vars

\* C27: while the connection is open the reconnect-attempt counter is 0, and
\* a reconnect timer firing then neither changes the counter nor creates a
\* socket.
C27_NoReconnectWhileOpen ==
  /\ [](getStatus = "connected" => client.reconnectAttempts = 0)
  /\ [][(ReconnectTimerFire /\ getStatus = "connected")
          => /\ client'.reconnectAttempts = client.reconnectAttempts
             /\ ~SocketCreated]_vars

\* C28: getConnectionId() is non-null only while getStatus() is connected.
C28_ConnectionIdOnlyWhileConnected ==
  getConnectionId # 0 => getStatus = "connected"

\* C29: for each tool_execution at most one tool_result is put on the wire,
\* also when the send on the success path fails and the catch block runs.
C29_AtMostOneToolResult ==
  /\ \A t \in ToolSlots : tools[t].sent <= 1
  /\ Len(out.frames) <= 1

\* C29 witness: one request was answered on the success path, and for
\* another every send failed: nothing was put on the wire for it.
C29_Witness ==
  /\ tools[1].pc = "done" /\ tools[1].sent = 1 /\ tools[1].sentSuccess
  /\ tools[2].pc = "done" /\ tools[2].threw /\ tools[2].sent = 0

\* The number of reconnect timers pending.
PendingTimers(c) == (IF c.reconnectTimer = "pending" THEN 1 ELSE 0) + c.orphans

\* C30: at most one reconnect timer is pending; when it fires the counter
\* goes up by one and, the connection attempt having started, no timer is
\* left to fire again.
C30_SingleReconnectTimer ==
  /\ [](PendingTimers(client) <= 1)
  /\ [][ReconnectTimerFire
          => /\ client'.reconnectAttempts = client.reconnectAttempts + 1
             /\ urlOk => PendingTimers(client') = 0]_vars

\* C30 witness: two failures were reported before the timer fired: the
\* reconnect was scheduled twice and one timer is pending.
C30_Witness ==
  /\ client.scheduled = 2
  /\ client.reconnectAttempts = 0
  /\ client.reconnectTimer = "pending"
  /\ client.timerDelay = 2 * initialReconnectDelay

====
